---- MODULE Spec2Model ----
(***************************************************************************)
(* A model of the ManagementPortal back end: the Express entry point       *)
(* (src/server.js), the tasks router (src/routes/tasks.js), the clients    *)
(* router (src/unnamed/part_005, second half) and the documents router in  *)
(* its three storage variants (src/unnamed/part_005 first half: local      *)
(* disk; src/unnamed/part_004 first half: memory buffer; second half:      *)
(* Cloudinary).                                                            *)
(*                                                                         *)
(* One action is one HTTP request, run through the whole pipeline:         *)
(* connectToDatabase, then the route's middleware (protect, authorize,     *)
(* upload), then the handler.  The store is the three collections.  The    *)
(* variables req and res hold the request just served and its response.    *)
(***************************************************************************)
EXTENDS Integers, Sequences, FiniteSets, TLC

\* ------------------------------------------------------------------ bounds
\* Object ids are issued in order and never reused (Mongo ObjectIds).
MaxUsers == 4
MaxTasks == 1
MaxDocs == 1

UserIds == 1..MaxUsers
TaskIds == 1..MaxTasks
DocIds == 1..MaxDocs

\* ------------------------------------------------------------ value domains
\* Task.status values a request may carry.
Statuses == {"pending", "completed"}

\* A bearer token: absent, malformed, or signed for a user id.
Tokens ==
  {[kind |-> "missing", uid |-> 0], [kind |-> "malformed", uid |-> 0]}
    \cup {[kind |-> "signed", uid |-> u] : u \in UserIds}

VARIABLES
  users,        \* User collection: id -> record, NoUser when no such record
  nextUser,     \* next User id to issue
  tasks,        \* Task collection
  nextTask,
  docs,         \* Document collection
  nextDoc,
  blobs,        \* stored files (disk paths / Cloudinary assets), by document id
  strategy,     \* which documents router the deployment runs
  traffic,      \* which router's requests this run carries
  nodeEnv,      \* process.env.NODE_ENV
  pending,      \* clients writes in flight: past their check, not yet written
  flight,       \* a request followed through the middleware chain step by step
  isConnected,  \* server.js: let isConnected
  readyState,   \* mongoose.connection.readyState: 0 down, 1 up, 2 connecting
  req,          \* the request just served
  res           \* its response

store == <<users, nextUser, tasks, nextTask, docs, nextDoc, blobs>>
\* What a request served in one step leaves alone.
deployment == <<strategy, traffic, nodeEnv, pending, flight>>
vars == <<users, nextUser, tasks, nextTask, docs, nextDoc, blobs, strategy, traffic, nodeEnv,
          pending, flight,
          isConnected, readyState, req, res>>

\* ------------------------------------------------------------------ records
NoUser == [role |-> "none", phone |-> "", email |-> "", password |-> ""]
NotPopulated == [role |-> "unpopulated", phone |-> "", email |-> ""]
NoTask ==
  [title |-> "", description |-> "", deadline |-> 0, status |-> "none",
   client |-> 0, createdBy |-> 0]
NoDoc == [name |-> "", fileUrl |-> "", fileType |-> "", client |-> 0, uploadedBy |-> 0, task |-> 0]

findUser(id) == IF id \in UserIds THEN users[id] ELSE NoUser
findTask(id) == IF id \in TaskIds THEN tasks[id] ELSE NoTask
findDoc(id) == IF id \in DocIds THEN docs[id] ELSE NoDoc

\* new Date(s): the timestamp of a date string, 0 for Invalid Date.
ParseDate(s) ==
  CASE s = "2026-01-01" -> 20260101
    [] s = "2026-02-01" -> 20260201
    [] OTHER -> 0

InvalidDate == ParseDate("")

\* Task schema default for a task created without a status.
DefaultStatus == "pending"

\* ---------------------------------------------------------------- responses
NoReq ==
  [route |-> "", token |-> [kind |-> "missing", uid |-> 0], id |-> 0,
   clientId |-> 0, status |-> "", attempt |-> "none"]

Res(layer, status, message) ==
  [layer |-> layer, status |-> status, message |-> message, error |-> "",
   tasks |-> {}, docs |-> {}, users |-> {}, sent |-> <<>>]

NoRes == Res("", 0, "")

\* populate('client', 'name email phone'): the fields of the user selected.
populated(u) == [role |-> u.role, phone |-> u.phone, email |-> u.email]

\* A Task as serialised in a response; clientInfo is the populated client
\* (NoUser when populate found none, i.e. null).
TaskView(id, t, info) ==
  [id |-> id, title |-> t.title, description |-> t.description,
   deadline |-> t.deadline, status |-> t.status, client |-> t.client,
   createdBy |-> t.createdBy, clientInfo |-> populated(info)]

DocView(id, d, info) ==
  [id |-> id, name |-> d.name, fileUrl |-> d.fileUrl, fileType |-> d.fileType,
   client |-> d.client, uploadedBy |-> d.uploadedBy, task |-> d.task,
   clientInfo |-> populated(info)]

\* A user serialised whole, as the store holds it.
UserView_Whole(id, u) ==
  [id |-> id, role |-> u.role, phone |-> u.phone, email |-> u.email,
   password |-> u.password]

\* A client as the clients routes serialise it: select('-password') on the
\* reads, the fields _id, name, email, phone, role on the writes.
UserView(id, u) == [id |-> id, role |-> u.role, phone |-> u.phone, email |-> u.email]

\* ------------------------------------------------------- src/server.js
\* connectDB: mongoose.connect resolves or rejects; a rejection is caught and
\* logged inside connectDB, which therefore always returns normally.
\* The result: the readyState afterwards and whether connectDB threw.
connectDB(outcome) ==
  [readyState |-> IF outcome = "ok" THEN 1 ELSE 0, threw |-> FALSE]

\* connectToDatabase(req, res, next): the connection state afterwards, and
\* whether next() was called (passed) or the 500 was sent.
connectToDatabase(outcome) ==
  IF isConnected
    THEN [isConnected |-> TRUE, readyState |-> readyState,
          attempt |-> "none", passed |-> TRUE]
    ELSE IF readyState # 1
      THEN LET c == connectDB(outcome) IN
           IF c.threw
             THEN [isConnected |-> FALSE, readyState |-> c.readyState,
                   attempt |-> outcome, passed |-> FALSE]
             ELSE [isConnected |-> TRUE, readyState |-> c.readyState,
                   attempt |-> outcome, passed |-> TRUE]
      ELSE [isConnected |-> FALSE, readyState |-> readyState,
            attempt |-> "none", passed |-> TRUE]

\* The outcomes mongoose.connect can have for this request: none is drawn
\* when the middleware makes no attempt.
ConnectOutcomes == IF ~isConnected /\ readyState # 1 THEN {"ok", "fail"} ELSE {"skip"}

DatabaseConnectionFailed == Res("connectToDatabase", 500, "Database connection failed")

\* --------------------------------------------------------------- results
\* What a request leaves behind: the store (unchanged unless the handler
\* wrote) and the response.
Keep(r) ==
  [users |-> users, nextUser |-> nextUser, tasks |-> tasks, nextTask |-> nextTask,
   docs |-> docs, nextDoc |-> nextDoc, blobs |-> blobs, res |-> r]

Apply(r) ==
  /\ users' = r.users /\ nextUser' = r.nextUser
  /\ tasks' = r.tasks /\ nextTask' = r.nextTask
  /\ docs' = r.docs /\ nextDoc' = r.nextDoc
  /\ blobs' = r.blobs
  /\ res' = r.res

\* A store call made while the connection is down throws (bufferCommands is
\* false); every handler's catch answers 500 with the error's message.
StoreError == Res("handler", 500, "store error")

\* ------------------------------------------------ middleware/auth.js
\* protect: verify the bearer token and load the user it names; 401 when
\* the token is missing, malformed or names no user (or the lookup fails).
\* r is what the rest of the route does with req.user = the token's user.
protect(tok, up, r) ==
  IF tok.kind # "signed" \/ ~up THEN Keep(Res("protect", 401, "Not authorized"))
  ELSE IF findUser(tok.uid) = NoUser THEN Keep(Res("protect", 401, "Not authorized"))
  ELSE r

\* authorize(...roles): 403 unless the user's role is one of roles.
authorize(u, roles, r) ==
  IF findUser(u).role \in roles THEN r
  ELSE Keep(Res("authorize", 403, "Not authorized for this role"))

\* ----------------------------------------------- sendWhatsAppNotification
\* A dispatcher that tries a second time when the first POST fails.
sendWhatsAppNotification_Retries(phone, what, outcome) ==
  [calls |-> IF outcome = "ok"
               THEN <<[phone |-> phone, what |-> what, delivered |-> TRUE]>>
               ELSE <<[phone |-> phone, what |-> what, delivered |-> FALSE],
                      [phone |-> phone, what |-> what, delivered |-> FALSE]>>,
   threw |-> FALSE]

\* A dispatcher without the try/catch: a failed POST reaches the caller.
sendWhatsAppNotification_Rethrows(phone, what, outcome) ==
  [calls |-> <<[phone |-> phone, what |-> what, delivered |-> (outcome = "ok")]>>,
   threw |-> (outcome # "ok")]

\* One POST to the messaging API; a failure is caught, logged, and null is
\* returned.  The result: the POSTs made, each with whether it was
\* delivered, and whether the function threw.
sendWhatsAppNotification(phone, what, outcome) ==
  [calls |-> <<[phone |-> phone, what |-> what, delivered |-> (outcome = "ok")]>>,
   threw |-> FALSE]

NotifyOutcomes == {"ok", "fail"}

\* ------------------------------------------------------ routes/tasks.js
\* GET /api/tasks: Task.find() for an admin, Task.find({ client:
\* req.user._id }) for anyone else.
tasksFound(u) ==
  IF findUser(u).role = "admin"
    THEN {j \in TaskIds : tasks[j] # NoTask}
    ELSE {j \in TaskIds : tasks[j] # NoTask /\ tasks[j].client = u}

getTasks(u, up) ==
  IF ~up THEN Keep(StoreError)
  ELSE Keep([Res("handler", 200, "") EXCEPT
               !.tasks = {TaskView(i, tasks[i], IF findUser(u).role = "admin"
                                                  THEN findUser(tasks[i].client)
                                                  ELSE NotPopulated) :
                            i \in tasksFound(u)}])

getTasksRoute(tok, up) == protect(tok, up, getTasks(tok.uid, up))

\* GET /api/tasks/:id
getTaskById(u, up, id) ==
  IF ~up THEN Keep(StoreError)
  ELSE LET task == findTask(id)
           client == findUser(task.client) IN
    IF task = NoTask THEN Keep(Res("handler", 404, "Task not found"))
    ELSE IF findUser(u).role # "admin" /\ client = NoUser
      \* task.client is null after populate: reading ._id throws
      THEN Keep(Res("handler", 500, "TypeError"))
    ELSE IF findUser(u).role # "admin" /\ task.client # u
      THEN Keep(Res("handler", 403, "Not authorized to access this task"))
    ELSE Keep([Res("handler", 200, "") EXCEPT !.tasks = {TaskView(id, task, client)}])

getTaskByIdRoute(tok, up, id) == protect(tok, up, getTaskById(tok.uid, up, id))

\* A validation that looks only at whether the user exists.
taskClientNotFound_AnyRole(client) == client = NoUser

\* POST /api/tasks: "Validate client exists"
taskClientNotFound(client) == client = NoUser \/ client.role # "client"

\* POST /api/tasks
postTask(u, up, body, outcome) ==
  IF ~up THEN Keep(StoreError)
  ELSE LET client == findUser(body.clientId)
           task == [title |-> body.title, description |-> body.description,
                    deadline |-> ParseDate(body.deadline), status |-> DefaultStatus,
                    client |-> body.clientId, createdBy |-> u]
           n == sendWhatsAppNotification(client.phone, "New task assigned", outcome) IN
    IF taskClientNotFound(client)
      THEN Keep(Res("handler", 404, "Client not found"))
    ELSE IF task.deadline = InvalidDate
      \* Task.create rejects an Invalid Date
      THEN Keep(Res("handler", 500, "validation failed"))
    ELSE IF n.threw
      THEN [Keep([Res("handler", 500, "notification failed") EXCEPT !.sent = n.calls]) EXCEPT
              !.tasks = [tasks EXCEPT ![nextTask] = task], !.nextTask = nextTask + 1]
    ELSE [Keep([Res("handler", 201, "") EXCEPT
                  !.tasks = {TaskView(nextTask, task, NotPopulated)},
                  !.sent = n.calls]) EXCEPT
            !.tasks = [tasks EXCEPT ![nextTask] = task], !.nextTask = nextTask + 1]

postTaskRoute(tok, up, body, outcome) ==
  protect(tok, up, authorize(tok.uid, {"admin"}, postTask(tok.uid, up, body, outcome)))

\* An update that gives every caller the admin's field mask.
taskUpdate_NoFieldMask(role, task, body) ==
  LET Or(a, b) == IF a # "" THEN a ELSE b IN
    [task EXCEPT
       !.title = Or(body.title, task.title),
       !.description = Or(body.description, task.description),
       !.status = Or(body.status, task.status),
       !.deadline = IF body.deadline # "" THEN ParseDate(body.deadline)
                    ELSE task.deadline,
       !.client = IF body.clientId # 0 THEN body.clientId ELSE task.client]

\* PUT /api/tasks/:id: the fields the handler assigns before task.save().
\* "Admin can update any task, client can only update status of their own tasks"
taskUpdate(role, task, body) ==
  LET Or(a, b) == IF a # "" THEN a ELSE b IN
    IF role = "client"
      THEN [task EXCEPT !.status = Or(body.status, task.status)]
      ELSE [task EXCEPT
              !.title = Or(body.title, task.title),
              !.description = Or(body.description, task.description),
              !.status = Or(body.status, task.status),
              !.deadline = IF body.deadline # "" THEN ParseDate(body.deadline)
                           ELSE task.deadline,
              !.client = IF body.clientId # 0 THEN body.clientId ELSE task.client]

\* "If status changed to completed, send notification": the test is made on
\* the task after the handler has assigned it the new status.
completionNotice(body, updated) ==
  body.status = "completed" /\ updated.status # "completed"

\* A handler without the ownership check.
taskNotOwned_Never(u, task) == FALSE

\* "client can only update status of their own tasks": the check is made for
\* a client-role caller only.
taskNotOwned(u, task) == findUser(u).role = "client" /\ task.client # u

\* The 404 sent after the fields were assigned and the task saved.
taskClientRefused_AfterSave(id, updated) ==
  [Keep(Res("handler", 404, "Client not found")) EXCEPT
     !.tasks = [tasks EXCEPT ![id] = updated]]

\* return res.status(404): the handler leaves before task.save(), so the
\* fields assigned to the loaded task are dropped with it.
taskClientRefused(id, updated) == Keep(Res("handler", 404, "Client not found"))

\* PUT /api/tasks/:id
putTask(u, up, id, body, outcome) ==
  IF ~up THEN Keep(StoreError)
  ELSE LET task == findTask(id)
           newClient == findUser(body.clientId)
           updated == taskUpdate(findUser(u).role, task, body)
           notify == completionNotice(body, updated)
           client == findUser(updated.client)
           n == sendWhatsAppNotification(client.phone, "Task completed", outcome) IN
    IF task = NoTask THEN Keep(Res("handler", 404, "Task not found"))
    ELSE IF taskNotOwned(u, task)
      THEN Keep(Res("handler", 403, "Not authorized to update this task"))
    ELSE IF findUser(u).role # "client" /\ body.clientId # 0
            /\ (newClient = NoUser \/ newClient.role # "client")
      THEN taskClientRefused(id, [updated EXCEPT !.client = task.client])
    ELSE IF updated.deadline = InvalidDate
      \* task.save() rejects an Invalid Date
      THEN Keep(Res("handler", 500, "validation failed"))
    ELSE IF notify /\ (client = NoUser \/ n.threw)
      \* client.phone of null, or the dispatcher threw
      THEN [Keep([Res("handler", 500, "TypeError") EXCEPT
                    !.sent = IF client = NoUser THEN <<>> ELSE n.calls]) EXCEPT
              !.tasks = [tasks EXCEPT ![id] = updated]]
    ELSE [Keep([Res("handler", 200, "") EXCEPT
                  !.tasks = {TaskView(id, updated, NotPopulated)},
                  !.sent = IF notify THEN n.calls ELSE <<>>]) EXCEPT
            !.tasks = [tasks EXCEPT ![id] = updated]]

putTaskRoute(tok, up, id, body, outcome) ==
  protect(tok, up, putTask(tok.uid, up, id, body, outcome))

\* DELETE /api/tasks/:id
deleteTask(u, up, id) ==
  IF ~up THEN Keep(StoreError)
  ELSE IF findTask(id) = NoTask THEN Keep(Res("handler", 404, "Task not found"))
  ELSE [Keep(Res("handler", 200, "Task removed")) EXCEPT
          !.tasks = [tasks EXCEPT ![id] = NoTask]]

deleteTaskRoute(tok, up, id) ==
  protect(tok, up, authorize(tok.uid, {"admin"}, deleteTask(tok.uid, up, id)))

\* ------------------------------------------------- routes/clients.js
\* GET /api/clients
getClients(u, up) ==
  IF ~up THEN Keep(StoreError)
  ELSE Keep([Res("handler", 200, "") EXCEPT
               !.users = {UserView(i, users[i]) : i \in {j \in UserIds : users[j].role = "client"}}])

getClientsRoute(tok, up) ==
  protect(tok, up, authorize(tok.uid, {"admin"}, getClients(tok.uid, up)))

\* GET /api/clients/:id
getClientById(u, up, id) ==
  IF ~up THEN Keep(StoreError)
  ELSE IF findUser(id) = NoUser \/ findUser(id).role # "client"
    THEN Keep(Res("handler", 404, "Client not found"))
  ELSE Keep([Res("handler", 200, "") EXCEPT !.users = {UserView(id, findUser(id))}])

getClientByIdRoute(tok, up, id) ==
  protect(tok, up, authorize(tok.uid, {"admin"}, getClientById(tok.uid, up, id)))

\* The User schema's pre-save hook stores a hash of the password.
hashed(password) == IF password = "" THEN "" ELSE "hash of " \o password

\* User schema: email is unique; a write that would break it is rejected.
EmailTaken(email, except) ==
  \E i \in UserIds \ {except} : users[i] # NoUser /\ users[i].email = email

\* A users collection without the unique index on email.
emailIndexRejects_NoIndex(email, id) == FALSE

\* The unique index on email: the store rejects a write that would give the
\* user id an email another user has.
emailIndexRejects(email, id) == EmailTaken(email, id)

\* POST /api/clients
postClient(u, up, body) ==
  IF ~up THEN Keep(StoreError)
  ELSE LET client == [role |-> "client", phone |-> body.phone, email |-> body.email,
                      password |-> hashed(body.password)] IN
    IF EmailTaken(body.email, 0) THEN Keep(Res("handler", 400, "Client already exists"))
    ELSE [Keep([Res("handler", 201, "") EXCEPT !.users = {UserView(nextUser, client)}]) EXCEPT
            !.users = [users EXCEPT ![nextUser] = client], !.nextUser = nextUser + 1]

postClientRoute(tok, up, body) ==
  protect(tok, up, authorize(tok.uid, {"admin"}, postClient(tok.uid, up, body)))

\* PUT /api/clients/:id
putClient(u, up, id, body) ==
  IF ~up THEN Keep(StoreError)
  ELSE LET client == findUser(id)
           Or(a, b) == IF a # "" THEN a ELSE b
           updated == [client EXCEPT !.email = Or(body.email, client.email),
                                     !.phone = Or(body.phone, client.phone),
                                     !.password = Or(hashed(body.password),
                                                     client.password)] IN
    IF client = NoUser \/ client.role # "client"
      THEN Keep(Res("handler", 404, "Client not found"))
    ELSE IF emailIndexRejects(updated.email, id)
      \* client.save() fails on the unique index
      THEN Keep(Res("handler", 500, "duplicate key"))
    ELSE [Keep([Res("handler", 200, "") EXCEPT !.users = {UserView(id, updated)}]) EXCEPT
            !.users = [users EXCEPT ![id] = updated]]

putClientRoute(tok, up, id, body) ==
  protect(tok, up, authorize(tok.uid, {"admin"}, putClient(tok.uid, up, id, body)))

\* DELETE /api/clients/:id
deleteClient(u, up, id) ==
  IF ~up THEN Keep(StoreError)
  ELSE IF findUser(id) = NoUser \/ findUser(id).role # "client"
    THEN Keep(Res("handler", 404, "Client not found"))
  ELSE [Keep(Res("handler", 200, "Client removed")) EXCEPT
          !.users = [users EXCEPT ![id] = NoUser]]

deleteClientRoute(tok, up, id) ==
  protect(tok, up, authorize(tok.uid, {"admin"}, deleteClient(tok.uid, up, id)))

\* ------------------------------------------------ middleware/upload.js
\* upload.single('file'): a file over the size limit makes multer pass an
\* error to next(), which the entry point's error handler answers; the disk
\* variant of the middleware has written the file before the handler runs.
SomethingWentWrong ==
  [Res("errorHandler", 500, "Something went wrong!") EXCEPT
     !.error = IF nodeEnv = "production" THEN "Server error" ELSE "File too large"]

\* An upload middleware configured without limits.
upload_NoLimit(file, r) == r

\* upload.single('file'): a file over limits.fileSize makes multer call
\* next(err), which the app's error middleware answers.
upload(file, r) == IF file.size = "big" THEN Keep(SomethingWentWrong) ELSE r

\* Document schema: name, fileUrl and fileType are required strings.
DocumentValid(d) == d.name # "" /\ d.fileUrl # "" /\ d.fileType # ""

\* path.extname(originalname).substring(1)
ExtName(originalname) ==
  CASE originalname = "f.pdf" -> "pdf"
    [] OTHER -> ""

\* ---------------------------------------------------- routes/documents.js
\* A listing that applies no client filter.
documentsFound_Unscoped(u) == {j \in DocIds : docs[j] # NoDoc}

\* GET /api/documents (the same in the three variants): Document.find() for
\* an admin, Document.find({ client: req.user._id }) for anyone else.
documentsFound(u) ==
  IF findUser(u).role = "admin"
    THEN {j \in DocIds : docs[j] # NoDoc}
    ELSE {j \in DocIds : docs[j] # NoDoc /\ docs[j].client = u}

getDocuments(u, up) ==
  IF ~up THEN Keep(StoreError)
  ELSE Keep([Res("handler", 200, "") EXCEPT
               !.docs = {DocView(i, docs[i], IF findUser(u).role = "admin"
                                               THEN findUser(docs[i].client)
                                               ELSE NotPopulated) :
                           i \in documentsFound(u)}])

getDocumentsRoute(tok, up) == protect(tok, up, getDocuments(tok.uid, up))

\* GET /api/documents/:id (the same in the three variants)
getDocumentById(u, up, id) ==
  IF ~up THEN Keep(StoreError)
  ELSE LET document == findDoc(id)
           client == findUser(document.client) IN
    IF document = NoDoc THEN Keep(Res("handler", 404, "Document not found"))
    ELSE IF findUser(u).role # "admin" /\ client = NoUser
      \* document.client is null after populate: reading ._id throws
      THEN Keep(Res("handler", 500, "TypeError"))
    ELSE IF findUser(u).role # "admin" /\ document.client # u
      THEN Keep(Res("handler", 403, "Not authorized to access this document"))
    ELSE Keep([Res("handler", 200, "") EXCEPT !.docs = {DocView(id, document, client)}])

getDocumentByIdRoute(tok, up, id) == protect(tok, up, getDocumentById(tok.uid, up, id))

\* The stored reference each variant records for an accepted file.
FileUrl(strat, cloud) ==
  CASE strat = "disk" -> "uploads/file"
    [] strat = "memory" -> "uploads/virtual"
    [] OTHER -> IF cloud = "ok" THEN "https://res.cloudinary.com/asset" ELSE ""

\* An owner taken from the body whenever the body names one.
documentClient_FromBody(u, body) == IF body.clientId # 0 THEN body.clientId ELSE u

\* "Determine the client ID": the body's clientId for an admin, the caller
\* otherwise.
documentClient(u, body) == IF findUser(u).role = "admin" THEN body.clientId ELSE u

\* A notification for every upload.
documentNotice_Always(u, clientId) == TRUE

\* "If admin uploaded a document for a client, send notification"
documentNotice(u, clientId) == findUser(u).role = "admin" /\ clientId # u

\* POST /api/documents, after protect and upload.single('file')
postDocument(u, up, file, body, cloud, outcome) ==
  LET onDisk == IF strategy = "disk" /\ file.size = "ok" THEN {nextDoc} ELSE {}
      clientId == documentClient(u, body)
      client == findUser(clientId)
      document == [name |-> IF body.name # "" THEN body.name ELSE file.originalname,
                   fileUrl |-> FileUrl(strategy, cloud),
                   fileType |-> ExtName(file.originalname),
                   client |-> clientId, uploadedBy |-> u, task |-> body.taskId]
      stored == IF strategy = "cloudinary" THEN {nextDoc} ELSE onDisk
      notify == documentNotice(u, clientId)
      n == sendWhatsAppNotification(client.phone, "New document uploaded", outcome)
      Left(files, r) == [Keep(r) EXCEPT !.blobs = blobs \cup files] IN
    IF file.size = "none" THEN Keep(Res("handler", 400, "Please upload a file"))
    ELSE IF findUser(u).role = "admin" /\ body.clientId = 0
      THEN Left(onDisk, Res("handler", 400, "Please specify a client"))
    ELSE IF ~up THEN Left(onDisk, StoreError)
    ELSE IF findUser(u).role = "admin" /\ (client = NoUser \/ client.role # "client")
      THEN Left(onDisk, Res("handler", 404, "Client not found"))
    ELSE IF strategy = "cloudinary" /\ cloud # "ok"
      THEN Keep(Res("handler", 500, "Error uploading file"))
    ELSE IF ~DocumentValid(document)
      THEN Left(stored, Res("handler", 500, "validation failed"))
    ELSE IF notify /\ n.threw
      THEN [Left(stored, [Res("handler", 500, "notification failed") EXCEPT
                            !.sent = n.calls]) EXCEPT
              !.docs = [docs EXCEPT ![nextDoc] = document], !.nextDoc = nextDoc + 1]
    ELSE [Left(stored, [Res("handler", 201, "") EXCEPT
                          !.docs = {DocView(nextDoc, document, NotPopulated)},
                          !.sent = IF notify THEN n.calls ELSE <<>>]) EXCEPT
            !.docs = [docs EXCEPT ![nextDoc] = document], !.nextDoc = nextDoc + 1]

postDocumentRoute(tok, up, file, body, cloud, outcome) ==
  protect(tok, up, upload(file, postDocument(tok.uid, up, file, body, cloud, outcome)))

\* GET /api/documents/download/:id
downloadDocument(u, up, id) ==
  IF ~up THEN Keep(StoreError)
  ELSE LET document == findDoc(id)
           view == {DocView(id, document, NotPopulated)} IN
    IF document = NoDoc THEN Keep(Res("handler", 404, "Document not found"))
    ELSE IF findUser(u).role # "admin" /\ document.client # u
      THEN Keep(Res("handler", 403, "Not authorized to download this document"))
    ELSE IF strategy = "memory"
      THEN Keep([Res("handler", 200,
                     "Document download is not available in the serverless environment")
                   EXCEPT !.docs = view])
    ELSE IF strategy = "cloudinary"
      THEN Keep([Res("handler", 302, document.fileUrl) EXCEPT !.docs = view])
    ELSE IF id \notin blobs THEN Keep(Res("handler", 404, "File not found"))
    ELSE Keep([Res("handler", 200, "file") EXCEPT !.docs = view])

downloadDocumentRoute(tok, up, id) == protect(tok, up, downloadDocument(tok.uid, up, id))

\* A delete that removes the record and leaves every stored file alone.
deleteDocument_RecordOnly(u, up, id, destroyed) ==
  IF ~up THEN Keep(StoreError)
  ELSE LET document == findDoc(id) IN
    IF document = NoDoc THEN Keep(Res("handler", 404, "Document not found"))
    ELSE IF findUser(u).role # "admin" /\ document.client # u
      THEN Keep(Res("handler", 403, "Not authorized to delete this document"))
    ELSE [Keep(Res("handler", 200, "Document removed")) EXCEPT
            !.docs = [docs EXCEPT ![id] = NoDoc]]

\* A delete without the ownership check.
deleteDocument_AnyCaller(u, up, id, destroyed) ==
  IF ~up THEN Keep(StoreError)
  ELSE IF findDoc(id) = NoDoc THEN Keep(Res("handler", 404, "Document not found"))
  ELSE [Keep(Res("handler", 200, "Document removed")) EXCEPT
          !.docs = [docs EXCEPT ![id] = NoDoc],
          !.blobs = IF strategy = "memory" THEN blobs ELSE blobs \ {id}]

\* DELETE /api/documents/:id; cloudinary.uploader.destroy is started and not
\* awaited, its error only logged: destroyed is how that call ends.
deleteDocument(u, up, id, destroyed) ==
  IF ~up THEN Keep(StoreError)
  ELSE LET document == findDoc(id)
           left == CASE strategy = "disk" -> blobs \ {id}
                     [] strategy = "cloudinary" /\ destroyed = "ok" -> blobs \ {id}
                     [] OTHER -> blobs IN
    IF document = NoDoc THEN Keep(Res("handler", 404, "Document not found"))
    ELSE IF findUser(u).role # "admin" /\ document.client # u
      THEN Keep(Res("handler", 403, "Not authorized to delete this document"))
    ELSE [Keep(Res("handler", 200,
                   IF strategy = "memory"
                     THEN "Document record removed (file remains in storage)"
                     ELSE "Document removed")) EXCEPT
            !.docs = [docs EXCEPT ![id] = NoDoc], !.blobs = left]

\* The route mounted without protect.
deleteDocumentRoute_Unprotected(tok, up, id, destroyed) ==
  deleteDocument(tok.uid, up, id, destroyed)

deleteDocumentRoute(tok, up, id, destroyed) ==
  protect(tok, up, deleteDocument(tok.uid, up, id, destroyed))

\* ------------------------------------------------------ the pipeline
\* No request is being answered.
Idle == req.route = ""

\* Whether protect lets the token through when the store answers: a route
\* reads the request body only behind protect, so a body is drawn only then.
Authenticates(tok) == tok.kind = "signed" /\ findUser(tok.uid) # NoUser

BodiesFor(tok, bodies, none) == IF Authenticates(tok) THEN bodies ELSE {none}

\* Whether the store answers the handlers of a request whose connection
\* attempt, if it makes one, ends in out.
Up(out) == connectToDatabase(out).readyState = 1

\* app.use(connectToDatabase), then the mounted router's route, whose result
\* is r.
Serve(route, tok, id, clientId, status, out, r) ==
  LET c == connectToDatabase(out) IN
    /\ Idle
    /\ isConnected' = c.isConnected
    /\ readyState' = c.readyState
    /\ UNCHANGED deployment
    /\ req' = [route |-> route, token |-> tok, id |-> id, clientId |-> clientId,
               status |-> status, attempt |-> c.attempt]
    /\ Apply(IF c.passed THEN r ELSE Keep(DatabaseConnectionFailed))

\* The response has gone out; the server waits for the next request.
Deliver ==
  /\ ~Idle
  /\ req' = NoReq
  /\ res' = NoRes
  /\ UNCHANGED <<store, deployment, isConnected, readyState>>

\* The request bodies drawn for the task routes.
TaskCreateBodies ==
  [title : {"t1"}, description : {"x1"}, deadline : {"2026-01-01", "soon"},
   clientId : UserIds]

NoTaskBody == [title |-> "", description |-> "", deadline |-> "", status |-> "", clientId |-> 0]

\* A PUT body: a status alone, a deadline that is no date, a client alone, or
\* every field at once.
TaskUpdateBodies ==
  {[NoTaskBody EXCEPT !.status = s] : s \in {""} \cup Statuses}
    \cup {[NoTaskBody EXCEPT !.deadline = "soon"]}
    \cup {[NoTaskBody EXCEPT !.clientId = c] : c \in UserIds}
    \cup {[title |-> "t2", description |-> "x2", deadline |-> "2026-02-01", status |-> s,
           clientId |-> c] : s \in Statuses, c \in UserIds}

GetTasks ==
  \E tok \in Tokens, out \in ConnectOutcomes :
    Serve("GET /api/tasks", tok, 0, 0, "", out, getTasksRoute(tok, Up(out)))

GetTaskById ==
  \E tok \in Tokens, id \in TaskIds, out \in ConnectOutcomes :
    Serve("GET /api/tasks/:id", tok, id, 0, "", out, getTaskByIdRoute(tok, Up(out), id))

PostTask ==
  /\ nextTask \in TaskIds
  /\ \E tok \in Tokens, out \in ConnectOutcomes :
       \E body \in BodiesFor(tok, TaskCreateBodies, NoTaskBody), o \in NotifyOutcomes :
         Serve("POST /api/tasks", tok, 0, body.clientId, "", out,
               postTaskRoute(tok, Up(out), body, o))

PutTask ==
  \E tok \in Tokens, id \in TaskIds, out \in ConnectOutcomes :
    \E body \in BodiesFor(tok, TaskUpdateBodies, NoTaskBody), o \in NotifyOutcomes :
      Serve("PUT /api/tasks/:id", tok, id, body.clientId, body.status, out,
            putTaskRoute(tok, Up(out), id, body, o))

DeleteTask ==
  \E tok \in Tokens, id \in TaskIds, out \in ConnectOutcomes :
    Serve("DELETE /api/tasks/:id", tok, id, 0, "", out, deleteTaskRoute(tok, Up(out), id))

DeleteClient ==
  \E tok \in Tokens, id \in UserIds, out \in ConnectOutcomes :
    Serve("DELETE /api/clients/:id", tok, id, 0, "", out,
          deleteClientRoute(tok, Up(out), id))

\* The request bodies drawn for the clients routes.
NoClientBody == [email |-> "", phone |-> "", password |-> ""]

ClientCreateBodies == [email : {"e2", "e4"}, phone : {"p4"}, password : {"w4"}]

ClientUpdateBodies ==
  {NoClientBody, [NoClientBody EXCEPT !.email = "e4"], [NoClientBody EXCEPT !.phone = "p9"],
   [email |-> "e3", phone |-> "p9", password |-> "w9"]}

GetClients ==
  \E tok \in Tokens, out \in ConnectOutcomes :
    Serve("GET /api/clients", tok, 0, 0, "", out, getClientsRoute(tok, Up(out)))

GetClientById ==
  \E tok \in Tokens, id \in UserIds, out \in ConnectOutcomes :
    Serve("GET /api/clients/:id", tok, id, 0, "", out, getClientByIdRoute(tok, Up(out), id))

PostClient ==
  /\ nextUser \in UserIds
  /\ \E tok \in Tokens, out \in ConnectOutcomes :
       \E body \in BodiesFor(tok, ClientCreateBodies, NoClientBody) :
         Serve("POST /api/clients", tok, 0, 0, body.email, out,
               postClientRoute(tok, Up(out), body))

PutClient ==
  \E tok \in Tokens, id \in UserIds, out \in ConnectOutcomes :
    \E body \in BodiesFor(tok, ClientUpdateBodies, NoClientBody) :
      Serve("PUT /api/clients/:id", tok, id, 0, "", out,
            putClientRoute(tok, Up(out), id, body))

\* The uploads drawn for POST /api/documents.
NoFile == [size |-> "none", originalname |-> ""]

Files ==
  {NoFile, [size |-> "big", originalname |-> "f.pdf"],
   [size |-> "ok", originalname |-> "f.pdf"], [size |-> "ok", originalname |-> "README"]}

NoDocBody == [name |-> "", clientId |-> 0, taskId |-> 0]

DocBodies ==
  {[name |-> "", clientId |-> c, taskId |-> 0] : c \in {0} \cup UserIds}
    \cup {[name |-> "n1", clientId |-> c, taskId |-> 1] : c \in UserIds}

\* The outcomes of a call to Cloudinary (upload_stream, destroy).
CloudOutcomes == IF strategy = "cloudinary" THEN {"ok", "fail"} ELSE {"unused"}

GetDocuments ==
  \E tok \in Tokens, out \in ConnectOutcomes :
    Serve("GET /api/documents", tok, 0, 0, "", out, getDocumentsRoute(tok, Up(out)))

GetDocumentById ==
  \E tok \in Tokens, id \in DocIds, out \in ConnectOutcomes :
    Serve("GET /api/documents/:id", tok, id, 0, "", out,
          getDocumentByIdRoute(tok, Up(out), id))

PostDocument ==
  /\ nextDoc \in DocIds
  /\ \E tok \in Tokens, out \in ConnectOutcomes :
       \E file \in BodiesFor(tok, Files, NoFile), body \in BodiesFor(tok, DocBodies, NoDocBody),
          cloud \in CloudOutcomes, o \in NotifyOutcomes :
         Serve("POST /api/documents", tok, 0, body.clientId, file.size, out,
               postDocumentRoute(tok, Up(out), file, body, cloud, o))

DownloadDocument ==
  \E tok \in Tokens, id \in DocIds, out \in ConnectOutcomes :
    Serve("GET /api/documents/download/:id", tok, id, 0, "", out,
          downloadDocumentRoute(tok, Up(out), id))

DeleteDocument ==
  \E tok \in Tokens, id \in DocIds, destroyed \in CloudOutcomes, out \in ConnectOutcomes :
    Serve("DELETE /api/documents/:id", tok, id, 0, destroyed, out,
          deleteDocumentRoute(tok, Up(out), id, destroyed))

\* ------------------------------------------- clients writes interleaved
\* Two clients requests in flight at once, each an admin's with the store
\* answering.  A handler yields at each await: between its check (findOne,
\* findById) and its write (create, save) the other request may run.
Slots == {"first", "second"}

NoWrite == [kind |-> "none", id |-> 0, email |-> "", phone |-> "", password |-> "",
            outcome |-> ""]

\* POST /api/clients up to User.create: 400 ends the request at the check.
BeginPostClient(s) ==
  /\ pending[s] = NoWrite
  /\ nextUser \in UserIds
  /\ \E body \in ClientCreateBodies :
       pending' = [pending EXCEPT ![s] =
                     [kind |-> "create", id |-> 0, email |-> body.email,
                      phone |-> body.phone, password |-> hashed(body.password),
                      outcome |-> IF EmailTaken(body.email, 0) THEN "400" ELSE "awaited"]]
  /\ UNCHANGED <<store, strategy, traffic, nodeEnv, flight, isConnected, readyState, req, res>>

\* PUT /api/clients/:id up to client.save(): the fields the body assigns.
BeginPutClient(s) ==
  /\ pending[s] = NoWrite
  /\ \E id \in UserIds, body \in {b \in ClientUpdateBodies : b.email # ""} :
       pending' = [pending EXCEPT ![s] =
                     [kind |-> "save", id |-> id, email |-> body.email,
                      phone |-> body.phone, password |-> hashed(body.password),
                      outcome |-> IF findUser(id) = NoUser \/ findUser(id).role # "client"
                                    THEN "404" ELSE "awaited"]]
  /\ UNCHANGED <<store, strategy, traffic, nodeEnv, flight, isConnected, readyState, req, res>>

\* User.create(...) resolves or rejects.
FinishCreate(s) ==
  LET p == pending[s]
      client == [role |-> "client", phone |-> p.phone, email |-> p.email,
                 password |-> p.password] IN
    /\ p.kind = "create" /\ p.outcome = "awaited"
    /\ nextUser \in UserIds
    /\ IF emailIndexRejects(p.email, 0)
         THEN /\ pending' = [pending EXCEPT ![s].outcome = "500"]
              /\ UNCHANGED <<users, nextUser>>
         ELSE /\ pending' = [pending EXCEPT ![s].outcome = "201"]
              /\ users' = [users EXCEPT ![nextUser] = client]
              /\ nextUser' = nextUser + 1
    /\ UNCHANGED <<tasks, nextTask, docs, nextDoc, blobs, strategy, traffic, nodeEnv, flight,
                   isConnected, readyState, req, res>>

\* client.save() resolves or rejects: it writes the fields assigned.
FinishSave(s) ==
  LET p == pending[s]
      Or(a, b) == IF a # "" THEN a ELSE b
      client == users[p.id]
      updated == [client EXCEPT !.email = Or(p.email, client.email),
                                !.phone = Or(p.phone, client.phone),
                                !.password = Or(p.password, client.password)] IN
    /\ p.kind = "save" /\ p.outcome = "awaited"
    /\ IF emailIndexRejects(updated.email, p.id)
         THEN /\ pending' = [pending EXCEPT ![s].outcome = "500"]
              /\ UNCHANGED users
         ELSE /\ pending' = [pending EXCEPT ![s].outcome = "200"]
              /\ users' = [users EXCEPT ![p.id] = updated]
    /\ UNCHANGED <<nextUser, tasks, nextTask, docs, nextDoc, blobs, strategy, traffic,
                   nodeEnv, flight, isConnected, readyState, req, res>>

\* The request has been answered; another may come.
Answered(s) ==
  /\ pending[s].outcome \notin {"", "awaited"}
  /\ pending' = [pending EXCEPT ![s] = NoWrite]
  /\ UNCHANGED <<store, strategy, traffic, nodeEnv, flight, isConnected, readyState, req, res>>

\* ------------------------------------------------- the database driver
\* The connectDB() call made when server.js is loaded settles.
StartupSettles ==
  /\ Idle
  /\ readyState = 2
  /\ readyState' \in {0, 1}
  /\ UNCHANGED <<store, deployment, isConnected, req, res>>

ConnectionLost ==
  /\ Idle
  /\ readyState = 1
  /\ readyState' = 0
  /\ UNCHANGED <<store, deployment, isConnected, req, res>>

\* The driver re-establishes a lost connection on its own.
ConnectionRestored ==
  /\ Idle
  /\ readyState = 0
  /\ readyState' = 1
  /\ UNCHANGED <<store, deployment, isConnected, req, res>>

\* ------------------------------------------- one request, step by step
\* A request followed from app.use(connectToDatabase) through the
\* middleware of its route to the handler.  Each stage either writes a
\* response (res.status(..).json(..)), calls next(), calls next(err), or
\* does none of these and leaves the request hanging.  flight.sent lists
\* the status of every response written for the request.
NoFlight ==
  [pc |-> "idle", route |-> "", token |-> NoReq.token, file |-> NoFile,
   body |-> NoDocBody, sent |-> <<>>]

TasksRoutes ==
  {"GET /api/tasks", "GET /api/tasks/:id", "POST /api/tasks", "PUT /api/tasks/:id",
   "DELETE /api/tasks/:id"}

ClientsRoutes ==
  {"GET /api/clients", "GET /api/clients/:id", "POST /api/clients", "PUT /api/clients/:id",
   "DELETE /api/clients/:id"}

DocumentsRoutes ==
  {"GET /api/documents", "GET /api/documents/:id", "POST /api/documents",
   "GET /api/documents/download/:id", "DELETE /api/documents/:id"}

\* app.use('/api/clients', ...), app.use('/api/tasks', ...),
\* app.use('/api/documents', ...): the routes a run's requests are drawn from.
RoutesOf(t) ==
  CASE t = "tasks steps" -> TasksRoutes
    [] t = "clients steps" -> ClientsRoutes
    [] t = "documents steps" -> DocumentsRoutes
    [] OTHER -> {}

\* router.METHOD(path, ...middleware, handler): the stages of a route.
Chain(route) ==
  CASE route \in ClientsRoutes \cup {"POST /api/tasks", "DELETE /api/tasks/:id"}
         -> <<"protect", "authorize", "handler">>
    [] route = "POST /api/documents" -> <<"protect", "upload", "handler">>
    [] OTHER -> <<"protect", "handler">>

\* The stage next() hands the request to.
After(route, stage) ==
  LET c == Chain(route)
      k == CHOOSE i \in 1..Len(c) : c[i] = stage IN
    c[k + 1]

\* What a stage did: the statuses it sent, and the stage it handed the
\* request to ("" when it called no next).
Sends(status) == [sends |-> <<status>>, next |-> ""]
CallsNext(stage) == [sends |-> <<>>, next |-> stage]

\* The request after the stage: answered (done), handed on, or hanging.
Moved(did) ==
  [flight EXCEPT
     !.sent = @ \o did.sends,
     !.pc = IF did.next # "" THEN did.next
            ELSE IF did.sends # <<>> THEN "done" ELSE "hung"]

\* The handler's store writes, without the one-step response record.
Persist(r) ==
  /\ users' = r.users /\ nextUser' = r.nextUser
  /\ tasks' = r.tasks /\ nextTask' = r.nextTask
  /\ docs' = r.docs /\ nextDoc' = r.nextDoc
  /\ blobs' = r.blobs

\* A request arrives; a creating route is drawn while an id is left to issue.
Enters ==
  /\ flight.pc = "idle"
  /\ \E route \in RoutesOf(traffic), tok \in Tokens :
       /\ route = "POST /api/tasks" => nextTask \in TaskIds
       /\ route = "POST /api/clients" => nextUser \in UserIds
       /\ route = "POST /api/documents" => nextDoc \in DocIds
       /\ flight' = [NoFlight EXCEPT !.pc = "connectToDatabase", !.route = route,
                                     !.token = tok]
  /\ UNCHANGED <<store, strategy, traffic, nodeEnv, pending, isConnected, readyState,
                 req, res>>

\* connectToDatabase: next(), or the 500 of its catch.
connectToDatabaseStage(c) ==
  IF c.passed THEN CallsNext("protect") ELSE Sends(500)

ConnectToDatabaseStep ==
  /\ flight.pc = "connectToDatabase"
  /\ \E out \in ConnectOutcomes :
       LET c == connectToDatabase(out) IN
         /\ isConnected' = c.isConnected
         /\ readyState' = c.readyState
         /\ flight' = Moved(connectToDatabaseStage(c))
  /\ UNCHANGED <<store, strategy, traffic, nodeEnv, pending, req, res>>

\* protect: the 401, or next() with req.user set.
protectStage(route, tok, up) ==
  LET r == protect(tok, up, Keep(NoRes)) IN
    IF r.res = NoRes THEN CallsNext(After(route, "protect")) ELSE Sends(r.res.status)

ProtectStep ==
  /\ flight.pc = "protect"
  /\ flight' = Moved(protectStage(flight.route, flight.token, readyState = 1))
  /\ UNCHANGED <<store, strategy, traffic, nodeEnv, pending, isConnected, readyState,
                 req, res>>

\* authorize('admin'): the 403, or next().
authorizeStage(route, u) ==
  LET r == authorize(u, {"admin"}, Keep(NoRes)) IN
    IF r.res = NoRes THEN CallsNext(After(route, "authorize")) ELSE Sends(r.res.status)

AuthorizeStep ==
  /\ flight.pc = "authorize"
  /\ flight' = Moved(authorizeStage(flight.route, flight.token.uid))
  /\ UNCHANGED <<store, strategy, traffic, nodeEnv, pending, isConnected, readyState,
                 req, res>>

\* upload.single('file'): next(err) for a file over the limit, next()
\* otherwise with req.file set.
uploadStage(route, file) ==
  IF upload(file, Keep(NoRes)).res = NoRes THEN CallsNext(After(route, "upload"))
  ELSE CallsNext("errorHandler")

UploadStep ==
  /\ flight.pc = "upload"
  /\ \E file \in Files :
       flight' = [Moved(uploadStage(flight.route, file)) EXCEPT !.file = file]
  /\ UNCHANGED <<store, strategy, traffic, nodeEnv, pending, isConnected, readyState,
                 req, res>>

\* app.use((err, req, res, next) => ...): res.status(500).send(errorResponse)
errorHandlerStage == Sends(SomethingWentWrong.status)

ErrorHandlerStep ==
  /\ flight.pc = "errorHandler"
  /\ flight' = Moved(errorHandlerStage)
  /\ UNCHANGED <<store, strategy, traffic, nodeEnv, pending, isConnected, readyState,
                 req, res>>

\* The request bodies drawn for a request followed step by step.
StepTaskCreateBodies == {b \in TaskCreateBodies : b.clientId \in {1, 2}}

StepTaskUpdateBodies ==
  {b \in TaskUpdateBodies : b.clientId \in {0, 1, 3} /\ b.status # "pending"}

StepClientUpdateBodies == {b \in ClientUpdateBodies : b.email # "" /\ b.phone = ""}

StepDocBodies == {b \in DocBodies : b.clientId \in {0, 1, 2} /\ b.name = ""}

\* What the handler of a route can do with the store and answer, over the
\* ids and bodies a request can carry and the outcomes of its outside calls.
\* A download is a response like any other: res.download, res.redirect.
Handled(route, u, up, file) ==
  CASE route = "GET /api/tasks" -> {getTasks(u, up)}
    [] route = "GET /api/tasks/:id" -> {getTaskById(u, up, id) : id \in TaskIds}
    [] route = "POST /api/tasks" ->
         {postTask(u, up, body, o) : body \in StepTaskCreateBodies, o \in NotifyOutcomes}
    [] route = "PUT /api/tasks/:id" ->
         UNION {{putTask(u, up, id, body, o) : body \in StepTaskUpdateBodies,
                                                o \in NotifyOutcomes} : id \in TaskIds}
    [] route = "DELETE /api/tasks/:id" -> {deleteTask(u, up, id) : id \in TaskIds}
    [] route = "GET /api/clients" -> {getClients(u, up)}
    [] route = "GET /api/clients/:id" -> {getClientById(u, up, id) : id \in UserIds}
    [] route = "POST /api/clients" -> {postClient(u, up, body) : body \in ClientCreateBodies}
    [] route = "PUT /api/clients/:id" ->
         {putClient(u, up, id, body) : id \in UserIds, body \in StepClientUpdateBodies}
    [] route = "DELETE /api/clients/:id" -> {deleteClient(u, up, id) : id \in UserIds}
    [] route = "GET /api/documents" -> {getDocuments(u, up)}
    [] route = "GET /api/documents/:id" -> {getDocumentById(u, up, id) : id \in DocIds}
    [] route = "GET /api/documents/download/:id" ->
         {downloadDocument(u, up, id) : id \in DocIds}
    [] route = "DELETE /api/documents/:id" ->
         {deleteDocument(u, up, id, d) : id \in DocIds, d \in CloudOutcomes}
    [] OTHER ->
         {postDocument(u, up, file, body, "unused", o) : body \in StepDocBodies,
                                                         o \in NotifyOutcomes}

\* The Cloudinary variant of POST /api/documents answers from the handler
\* itself only before the upload: no file, no client named, the client
\* lookup failing, the client not found.
BeforeUpload ==
  {"Please upload a file", "Please specify a client", "store error", "Client not found"}

\* A handler: every path of its try block and its catch ends in one
\* response.
handlerStage(r) == Sends(r.res.status)

HandlerStep ==
  /\ flight.pc = "handler"
  /\ ~(flight.route = "POST /api/documents" /\ strategy = "cloudinary")
  /\ \E r \in Handled(flight.route, flight.token.uid, readyState = 1, flight.file) :
       /\ Persist(r)
       /\ flight' = Moved(handlerStage(r))
  /\ UNCHANGED <<strategy, traffic, nodeEnv, pending, isConnected, readyState, req, res>>

\* POST /api/documents, Cloudinary variant, up to
\* "return new Promise(...)": an early answer, or the upload is started and
\* the handler answers nothing itself.
postDocumentStage(r) ==
  IF r.res.message \in BeforeUpload THEN Sends(r.res.status)
  ELSE CallsNext("upload_stream")

PostDocumentStep ==
  /\ flight.pc = "handler"
  /\ flight.route = "POST /api/documents" /\ strategy = "cloudinary"
  /\ \E body \in StepDocBodies :
       LET r == postDocument(flight.token.uid, readyState = 1, flight.file, body,
                             "ok", "ok") IN
         flight' = [Moved(postDocumentStage(r)) EXCEPT !.body = body]
  /\ UNCHANGED <<store, strategy, traffic, nodeEnv, pending, isConnected, readyState,
                 req, res>>

\* A callback that logs the upload error, answers 500 and, lacking the
\* return, goes on to read result.secure_url, whose TypeError its catch
\* answers too.
uploadStreamCallback_NoReturn(cloud, r) ==
  IF cloud # "ok" THEN [sends |-> <<500, 500>>, next |-> ""] ELSE Sends(r.res.status)

\* The callback given to cloudinary.uploader.upload_stream: 500 on an upload
\* error; otherwise Document.create, the notification, and 201, or the 500
\* of its catch.
uploadStreamCallback(cloud, r) == Sends(r.res.status)

UploadStreamStep ==
  /\ flight.pc = "upload_stream"
  /\ \E cloud \in {"ok", "fail"}, o \in NotifyOutcomes :
       LET r == postDocument(flight.token.uid, readyState = 1, flight.file, flight.body,
                             cloud, o) IN
         /\ Persist(r)
         /\ flight' = Moved(uploadStreamCallback(cloud, r))
  /\ UNCHANGED <<strategy, traffic, nodeEnv, pending, isConnected, readyState, req, res>>

\* The response has reached the caller; the next request may come.
Finish ==
  /\ flight.pc = "done"
  /\ flight' = NoFlight
  /\ UNCHANGED <<store, strategy, traffic, nodeEnv, pending, isConnected, readyState,
                 req, res>>

\* The steps Node runs once their callback or promise is ready.
Pipeline ==
  \/ ConnectToDatabaseStep \/ ProtectStep \/ AuthorizeStep \/ UploadStep
  \/ ErrorHandlerStep \/ HandlerStep \/ PostDocumentStep \/ UploadStreamStep

\* ------------------------------------------------------------------ Init
Strategies == {"disk", "memory", "cloudinary"}
Routers == {"tasks", "documents", "clients"}
Modes == {"development", "production"}
StepTraffic == {"tasks steps", "clients steps", "documents steps"}

\* The process has loaded server.js: connectDB() is in flight, no request has
\* come.  The store holds an admin and two clients, registered earlier.
\* The storage variant matters to the documents routes only.
Init ==
  /\ users = [u \in UserIds |->
                CASE u = 1 -> [role |-> "admin", phone |-> "p1", email |-> "e1",
                               password |-> hashed("w1")]
                  [] u = 2 -> [role |-> "client", phone |-> "p2", email |-> "e2",
                               password |-> hashed("w2")]
                  [] u = 3 -> [role |-> "client", phone |-> "p3", email |-> "e3",
                               password |-> hashed("w3")]
                  [] OTHER -> NoUser]
  /\ nextUser = 4
  /\ tasks = [i \in TaskIds |-> NoTask]
  /\ nextTask = 1
  /\ docs = [i \in DocIds |-> NoDoc]
  /\ nextDoc = 1
  /\ blobs = {}
  /\ traffic \in Routers \cup {"errors", "race"} \cup StepTraffic
  /\ strategy \in IF traffic \in {"documents", "documents steps"} THEN Strategies
                  ELSE {"memory"}
  /\ nodeEnv \in IF traffic = "errors" THEN Modes ELSE {"development"}
  /\ pending = [s \in Slots |-> NoWrite]
  /\ flight = NoFlight
  /\ isConnected = FALSE
  /\ readyState = 2
  /\ req = NoReq
  /\ res = NoRes

Driver == StartupSettles \/ ConnectionLost \/ ConnectionRestored

\* The tasks router, with the one clients route that removes a task's owner.
NextTasks ==
  \/ GetTasks \/ GetTaskById \/ PostTask \/ PutTask \/ DeleteTask
  \/ DeleteClient
  \/ Driver
  \/ Deliver

InitTasks == Init /\ traffic = "tasks"

SpecTasks == InitTasks /\ [][NextTasks]_vars

\* The documents router in its three variants.
NextDocuments ==
  \/ GetDocuments \/ GetDocumentById \/ PostDocument \/ DownloadDocument \/ DeleteDocument
  \/ DeleteClient
  \/ Driver
  \/ Deliver

InitDocuments == Init /\ traffic = "documents"

SpecDocuments == InitDocuments /\ [][NextDocuments]_vars

\* The clients router.
NextClients ==
  \/ GetClients \/ GetClientById \/ PostClient \/ PutClient \/ DeleteClient
  \/ Driver
  \/ Deliver

InitClients == Init /\ traffic = "clients"

SpecClients == InitClients /\ [][NextClients]_vars

\* Requests that can end in an error answer, a handler's (task creation) and
\* the error middleware's (the oversized upload), in both runtime modes.  No
\* route reads NODE_ENV; the error middleware of server.js does.
NextErrors ==
  \/ PostTask \/ PostDocument
  \/ Driver
  \/ Deliver

InitErrors == Init /\ traffic = "errors"

SpecErrors == InitErrors /\ [][NextErrors]_vars

\* The clients writes, two at a time.
NextRace ==
  \E s \in Slots :
    \/ BeginPostClient(s) \/ BeginPutClient(s)
    \/ FinishCreate(s) \/ FinishSave(s)
    \/ Answered(s)

InitRace == Init /\ traffic = "race"

SpecRace == InitRace /\ [][NextRace]_vars

\* Requests followed step by step, with the connection coming and going
\* between the steps.
NextSteps ==
  \/ Enters
  \/ Pipeline
  \/ Finish
  \/ Driver

InitSteps == Init /\ traffic \in StepTraffic

\* Node runs every continuation that is ready: a stage whose awaited call has
\* settled is eventually run.
SpecSteps == InitSteps /\ [][NextSteps]_vars /\ WF_vars(Pipeline)

\* Every route of the application; a run carries the requests of one router.
Next ==
  \/ traffic = "tasks" /\ NextTasks
  \/ traffic = "documents" /\ NextDocuments
  \/ traffic = "clients" /\ NextClients
  \/ traffic = "errors" /\ NextErrors
  \/ traffic = "race" /\ NextRace
  \/ traffic \in StepTraffic /\ NextSteps

Spec == Init /\ [][Next]_vars

\* ============================================================ properties
\* A request is taken up in a step from Idle to ~Idle; the unprimed store is
\* the one the request finds, the primed one the store it leaves.
Arrives == Idle /\ ~Idle'

\* The caller of the request taken up, as protect resolves it.
Caller == req'.token.uid

\* The request taken up gets past protect and finds the store answering.
ReachesHandler == Arrives /\ Authenticates(req'.token) /\ readyState' = 1

\* C1: a request whose bearer token is missing, malformed, or signed for a
\* user that no longer exists is answered 401 by every route of the clients,
\* tasks and documents routers, and leaves the users, tasks and documents as
\* it found them.
C1_NoTokenNoAccess ==
  [][(Arrives /\ ~Authenticates(req'.token))
       => /\ res'.status = 401
          /\ users' = users /\ tasks' = tasks /\ docs' = docs]_vars

\* A document's owner, since deleted, asks to delete the document and is
\* answered 401; the document is still there.
C1_Witness ==
  /\ req.route = "DELETE /api/documents/:id"
  /\ req.token.kind = "signed"
  /\ findUser(req.token.uid) = NoUser
  /\ findDoc(req.id) # NoDoc
  /\ findDoc(req.id).client = req.token.uid
  /\ res.status = 401

\* C2: GET /api/tasks and GET /api/documents answer a non-admin caller with
\* exactly the stored records whose client is the caller, and an admin with
\* every stored record.
C2_ListsAreScoped ==
  [][(ReachesHandler /\ req'.route \in {"GET /api/tasks", "GET /api/documents"})
       => LET admin == users[Caller].role = "admin"
              mineT == {i \in TaskIds : tasks[i] # NoTask /\ (admin \/ tasks[i].client = Caller)}
              mineD == {i \in DocIds : docs[i] # NoDoc /\ (admin \/ docs[i].client = Caller)}
          IN /\ res'.status = 200
             /\ req'.route = "GET /api/tasks" =>
                  /\ {v.id : v \in res'.tasks} = mineT
                  /\ \A v \in res'.tasks : v = TaskView(v.id, tasks[v.id], v.clientInfo)
             /\ req'.route = "GET /api/documents" =>
                  /\ {v.id : v \in res'.docs} = mineD
                  /\ \A v \in res'.docs : v = DocView(v.id, docs[v.id], v.clientInfo)]_vars

\* A client lists the documents while the store holds another client's
\* document, and the list comes back without it.
C2_Witness ==
  /\ req.route = "GET /api/documents"
  /\ findUser(req.token.uid).role = "client"
  /\ res.status = 200
  /\ \E i \in DocIds : docs[i] # NoDoc /\ docs[i].client # req.token.uid
  /\ res.docs = {}

\* C3: a POST /api/tasks that reaches the handler (an admin's, with the store
\* answering) and names a clientId that resolves to no user, or to a user
\* whose role is not client, is answered 404, creates no Task and calls the
\* dispatcher zero times.
C3_UnknownClientRejected ==
  [][(ReachesHandler /\ req'.route = "POST /api/tasks"
        /\ users[Caller].role = "admin"
        /\ (findUser(req'.clientId) = NoUser \/ findUser(req'.clientId).role # "client"))
       => /\ res'.status = 404
          /\ tasks' = tasks /\ nextTask' = nextTask
          /\ res'.sent = <<>>]_vars

\* An admin asks for a task for a user who is an admin, and is answered 404.
C3_Witness ==
  /\ req.route = "POST /api/tasks"
  /\ findUser(req.token.uid).role = "admin"
  /\ findUser(req.clientId).role = "admin"
  /\ res.status = 404

\* C4: a PUT /api/tasks/:id by a client-role caller on a task the caller owns
\* leaves title, description, deadline, client and createdBy of the stored
\* task as they were, whatever the body supplies; only status may differ.
C4_ClientUpdatesStatusOnly ==
  [][(ReachesHandler /\ req'.route = "PUT /api/tasks/:id"
        /\ users[Caller].role = "client"
        /\ tasks[req'.id] # NoTask /\ tasks[req'.id].client = Caller)
       => /\ [tasks'[req'.id] EXCEPT !.status = tasks[req'.id].status] = tasks[req'.id]
          /\ \A i \in TaskIds \ {req'.id} : tasks'[i] = tasks[i]]_vars

\* A client has sent every field, another client's id among them, and the
\* answer is 200 with the task completed and still the caller's.
C4_Witness ==
  /\ req.route = "PUT /api/tasks/:id"
  /\ findUser(req.token.uid).role = "client"
  /\ req.clientId \notin {0, req.token.uid}
  /\ req.status = "completed"
  /\ res.status = 200
  /\ findTask(req.id).client = req.token.uid
  /\ findTask(req.id).status = "completed"

\* C5: a PUT /api/tasks/:id that moves a task's status from a value other than
\* completed to completed calls the dispatcher exactly once, with the phone
\* of the task's client, and its response carries the new status.
C5_CompletionNotifiesOnce ==
  [][(ReachesHandler /\ req'.route = "PUT /api/tasks/:id"
        /\ tasks[req'.id] # NoTask
        /\ tasks[req'.id].status # "completed"
        /\ tasks'[req'.id].status = "completed")
       => /\ res'.status = 200
          /\ \E v \in res'.tasks : v.id = req'.id /\ v.status = "completed"
          /\ Len(res'.sent) = 1
          /\ res'.sent[1].phone = findUser(tasks'[req'.id].client).phone]_vars

\* C6: a POST /api/tasks by an admin for an existing client, when it succeeds
\* (201), has created exactly one Task, for that client, and has called the
\* dispatcher exactly once, with that client's phone; when it does not
\* succeed it has created no Task and called nobody.
C6_TaskCreatedNotifiesOnce ==
  [][(ReachesHandler /\ req'.route = "POST /api/tasks"
        /\ users[Caller].role = "admin"
        /\ findUser(req'.clientId).role = "client")
       => IF res'.status = 201
            THEN /\ Cardinality({i \in TaskIds : tasks'[i] # tasks[i]}) = 1
                 /\ \A i \in TaskIds : tasks'[i] # tasks[i] =>
                      /\ tasks[i] = NoTask
                      /\ tasks'[i].client = req'.clientId
                      /\ tasks'[i].createdBy = Caller
                 /\ Len(res'.sent) = 1
                 /\ res'.sent[1].phone = users[req'.clientId].phone
            ELSE /\ res'.status = 500
                 /\ tasks' = tasks
                 /\ res'.sent = <<>>]_vars

\* An admin has created a task for a client: 201, the task is stored, and the
\* one call made went to the client's phone.
C6_Witness ==
  /\ req.route = "POST /api/tasks"
  /\ res.status = 201
  /\ Len(res.sent) = 1
  /\ res.sent[1].delivered
  /\ res.sent[1].phone = findUser(req.clientId).phone
  /\ \E i \in TaskIds : tasks[i] # NoTask /\ tasks[i].client = req.clientId

\* C7: when the dispatcher's POST fails during a task creation or a document
\* upload, the request is still answered 201 and the record the response
\* carries is in the store.
C7_NotificationFailureSwallowed ==
  (/\ req.route \in {"POST /api/tasks", "POST /api/documents"}
   /\ \E k \in 1..Len(res.sent) : ~res.sent[k].delivered)
    => /\ res.status = 201
       /\ req.route = "POST /api/tasks" =>
            \E v \in res.tasks : /\ findTask(v.id) # NoTask
                                 /\ v = TaskView(v.id, findTask(v.id), v.clientInfo)
       /\ req.route = "POST /api/documents" =>
            \E v \in res.docs : /\ findDoc(v.id) # NoDoc
                                /\ v = DocView(v.id, findDoc(v.id), v.clientInfo)

\* An admin has uploaded a document for a client, the notification was not
\* delivered, and the answer is 201 with the document stored.
C7_Witness ==
  /\ req.route = "POST /api/documents"
  /\ Len(res.sent) = 1
  /\ ~res.sent[1].delivered
  /\ res.status = 201
  /\ \E i \in DocIds : docs[i] # NoDoc /\ docs[i].client = req.clientId

\* C8: GET /api/tasks/:id, GET /api/documents/:id and the download route
\* answer 404 when the record is absent, 403 and no record content when it
\* exists and the caller is neither an admin nor its owning client, and never
\* refuse an admin with 403.
C8_GetByIdRefusals ==
  [][(ReachesHandler
        /\ req'.route \in {"GET /api/tasks/:id", "GET /api/documents/:id",
                           "GET /api/documents/download/:id"})
       => LET isTask == req'.route = "GET /api/tasks/:id"
              exists == IF isTask THEN tasks[req'.id] # NoTask ELSE docs[req'.id] # NoDoc
              owner == IF isTask THEN tasks[req'.id].client ELSE docs[req'.id].client
              admin == users[Caller].role = "admin"
          IN /\ ~exists => res'.status = 404
             /\ (exists /\ ~admin /\ owner # Caller) =>
                  /\ res'.status = 403
                  /\ res'.tasks = {} /\ res'.docs = {}
             /\ admin => res'.status # 403]_vars

\* C9: a request during which the connection attempt made by
\* connectToDatabase fails is answered 500 'Database connection failed' by
\* the middleware and reaches no route.
C9_FailedAttemptAnswers500 ==
  (~Idle /\ req.attempt = "fail") => res = DatabaseConnectionFailed

\* C10: every request that finds the connection not live starts a new
\* connection attempt before it reaches a route; no state lets such a
\* request skip the attempt.
C10_NotLiveStartsAttempt ==
  [][(Arrives /\ readyState # 1) => req'.attempt # "none"]_vars

\* C11: a POST /api/documents whose file is over the 10 MB limit never reaches
\* the document-creation handler: the documents are as before and no
\* notification has been sent.
C11_OversizedNeverCreates ==
  [][(Arrives /\ req'.route = "POST /api/documents" /\ req'.status = "big")
       => /\ res'.layer # "handler"
          /\ docs' = docs /\ nextDoc' = nextDoc
          /\ res'.sent = <<>>]_vars

\* An admin has sent an oversized file for an existing client, with the
\* store answering, and the answer did not come from the handler.
C11_Witness ==
  /\ req.route = "POST /api/documents"
  /\ req.status = "big"
  /\ findUser(req.token.uid).role = "admin"
  /\ findUser(req.clientId).role = "client"
  /\ readyState = 1
  /\ res.layer = "errorHandler"

\* C12: an oversized upload that gets past protect is answered with a
\* client-error status, 400 or 413.
C12_OversizedIsClientError ==
  (/\ req.route = "POST /api/documents"
   /\ req.status = "big"
   /\ readyState = 1)
    => res.status \in {400, 413}

C14_DeleteRefusedForOthers ==
  [][(ReachesHandler /\ req'.route = "DELETE /api/documents/:id"
        /\ docs[req'.id] # NoDoc
        /\ users[Caller].role # "admin"
        /\ docs[req'.id].client # Caller)
       => /\ res'.status = 403
          /\ docs' = docs
          /\ blobs' = blobs]_vars

\* Under the disk variant a client asked to delete another client's document
\* whose file is stored, and was answered 403.
C14_Witness ==
  /\ req.route = "DELETE /api/documents/:id"
  /\ strategy = "disk"
  /\ findUser(req.token.uid).role = "client"
  /\ findDoc(req.id) # NoDoc
  /\ findDoc(req.id).client # req.token.uid
  /\ req.id \in blobs
  /\ res.status = 403

\* The messages of the errors a store call throws.
StoreFailures == {"store error", "validation failed", "duplicate key"}

\* C15: the 500 a resource handler answers when a store call fails carries
\* the underlying error message only when the runtime mode is not
\* production.
C15_StoreErrorHiddenInProduction ==
  (/\ ~Idle
   /\ res.layer = "handler"
   /\ res.status = 500
   /\ nodeEnv = "production")
    => res.message \notin StoreFailures

\* C16: a POST /api/documents that creates a document (201) calls the
\* dispatcher exactly once, with the phone of the client named, when the
\* caller is an admin uploading for another user, and zero times when the
\* caller is a client; an upload that creates nothing calls nobody.  Under
\* every storage variant.
C16_UploadNotifiesForAdminOnly ==
  [][(ReachesHandler /\ req'.route = "POST /api/documents")
       => IF res'.status = 201 /\ users[Caller].role = "admin" /\ req'.clientId # Caller
            THEN /\ Len(res'.sent) = 1
                 /\ res'.sent[1].phone = users[req'.clientId].phone
            ELSE res'.sent = <<>>]_vars

\* Under the Cloudinary variant an admin has uploaded a document for a
\* client and the one call made went to that client's phone.
C16_Witness ==
  /\ req.route = "POST /api/documents"
  /\ strategy = "cloudinary"
  /\ findUser(req.token.uid).role = "admin"
  /\ res.status = 201
  /\ Len(res.sent) = 1
  /\ res.sent[1].phone = findUser(req.clientId).phone
  /\ findUser(req.clientId).role = "client"

\* The documents the request taken up has created.
Created == {i \in DocIds : docs[i] = NoDoc /\ docs'[i] # NoDoc}

\* C17: a document created by a client-role caller has client = uploadedBy =
\* the caller whatever clientId the body carries; an admin's upload of a file
\* is answered 400 when the body names no client and 404 when the one named
\* is no user or not a client, creating nothing, and otherwise creates only a
\* document whose client is the user named.
C17_DocumentOwnership ==
  [][(ReachesHandler /\ req'.route = "POST /api/documents" /\ req'.status = "ok")
       => IF users[Caller].role = "client"
            THEN \A i \in Created : docs'[i].client = Caller /\ docs'[i].uploadedBy = Caller
          ELSE IF req'.clientId = 0
            THEN res'.status = 400 /\ docs' = docs
          ELSE IF findUser(req'.clientId).role # "client"
            THEN res'.status = 404 /\ docs' = docs
          ELSE \A i \in Created :
                 docs'[i].client = req'.clientId /\ docs'[i].uploadedBy = Caller]_vars

\* A client has uploaded a file with another client's id in the body, and the
\* document stored is the caller's.
C17_Witness ==
  /\ req.route = "POST /api/documents"
  /\ findUser(req.token.uid).role = "client"
  /\ req.clientId \notin {0, req.token.uid}
  /\ res.status = 201
  /\ \E v \in res.docs : /\ findDoc(v.id).client = req.token.uid
                         /\ findDoc(v.id).uploadedBy = req.token.uid

\* C18: no response of the clients routes carries a user's password, and a
\* POST /api/clients that reaches the handler with an email some user already
\* has is answered 400 and creates no user.
C18_NoPasswordNoDuplicate ==
  [][Arrives =>
       /\ \A v \in res'.users : "password" \notin DOMAIN v
       /\ (ReachesHandler /\ req'.route = "POST /api/clients"
             /\ users[Caller].role = "admin"
             /\ \E i \in UserIds : users[i] # NoUser /\ users[i].email = req'.status)
            => /\ res'.status = 400
               /\ users' = users /\ nextUser' = nextUser]_vars

\* An admin has asked for a client with the email of an existing client and
\* was answered 400; an earlier update had given that client a new password.
C18_Witness ==
  /\ req.route = "POST /api/clients"
  /\ res.status = 400
  /\ \E i \in UserIds : users[i].email = req.status /\ users[i].password = hashed("w9")

C20_FlagIsSound == isConnected => readyState = 1

\* C21: a PUT /api/tasks/:id that reaches the handler for a stored task is
\* answered 403, with the Task collection unchanged, when the caller is a
\* client and the task is another client's; an admin is never answered 403,
\* and an admin's 200 leaves the task with the status and the client the
\* body supplied.
C21_OwnershipGuardsClientsOnly ==
  [][(ReachesHandler /\ req'.route = "PUT /api/tasks/:id" /\ tasks[req'.id] # NoTask)
       => /\ (users[Caller].role = "client" /\ tasks[req'.id].client # Caller)
               => (res'.status = 403 /\ tasks' = tasks)
          /\ users[Caller].role = "admin"
               => /\ res'.status # 403
                  /\ res'.status = 200
                       => /\ req'.status # "" => tasks'[req'.id].status = req'.status
                          /\ req'.clientId # 0 => tasks'[req'.id].client = req'.clientId]_vars

\* An admin has changed title, description, status, deadline and client of a
\* task in one request.
C21_Witness ==
  /\ req.route = "PUT /api/tasks/:id"
  /\ findUser(req.token.uid).role = "admin"
  /\ res.status = 200
  /\ findTask(req.id).title = "t2"
  /\ findTask(req.id).description = "x2"
  /\ findTask(req.id).deadline = ParseDate("2026-02-01")
  /\ findTask(req.id).status = "completed"
  /\ findTask(req.id).client = 3
  /\ req.clientId = 3

\* C22: every stored Task and every stored Document has a client reference
\* that names an existing User whose role is client.
C22_ClientReferencesResolve ==
  /\ \A i \in TaskIds : tasks[i] # NoTask => findUser(tasks[i].client).role = "client"
  /\ \A j \in DocIds : docs[j] # NoDoc => findUser(docs[j].client).role = "client"

\* C23: an admin's PUT /api/tasks/:id on a stored task, with a clientId that
\* resolves to no user or to a user whose role is not client, is answered
\* 404 "Client not found" and leaves the Task collection as it was, whatever
\* other fields the body supplied.
C23_BadClientPersistsNothing ==
  [][(ReachesHandler /\ req'.route = "PUT /api/tasks/:id"
        /\ users[Caller].role = "admin"
        /\ tasks[req'.id] # NoTask
        /\ req'.clientId # 0
        /\ (findUser(req'.clientId) = NoUser \/ findUser(req'.clientId).role # "client"))
       => /\ res'.status = 404 /\ res'.message = "Client not found"
          /\ tasks' = tasks]_vars

\* An admin has sent a new title, description, deadline and status together
\* with the id of an admin as clientId; the answer is 404 and the pending
\* task is stored as it was created.
C23_Witness ==
  /\ req.route = "PUT /api/tasks/:id"
  /\ findUser(req.token.uid).role = "admin"
  /\ req.clientId = 1
  /\ req.status = "completed"
  /\ res.status = 404 /\ res.message = "Client not found"
  /\ findTask(req.id).title = "t1"
  /\ findTask(req.id).status = "pending"
  /\ findTask(req.id).deadline = ParseDate("2026-01-01")

====
